---- MODULE Spec2Model ----
(***************************************************************************)
(* A model of package btrfs (src/btrfs/volumes.go): the parsers of the     *)
(* "btrfs fi show", "btrfs fi df" and "btrfs subvolume list/show" reports, *)
(* the FileSystem aggregate built from them by GetFileSystem, and the      *)
(* derived metrics TotalBytes, AllocatedBytes, GetUsedBytes and UsedTotal. *)
(*                                                                         *)
(* Go strings are TLA+ strings, read character by character with SubSeq.   *)
(* A uint64 is a tuple of four 16-bit limbs, least significant first, so   *)
(* that sums and products wrap modulo 2^64 exactly as in the code.         *)
(* A call returns Ok(value), Err(value, message, detail), the value being   *)
(* the one the code returns beside the error, or Panic (a Go run-time      *)
(* panic: index out of range).                                             *)
(***************************************************************************)
EXTENDS Integers, Sequences, FiniteSets, TLC

VARIABLES pc, args, fs, ret, svs

vars == <<pc, args, fs, ret, svs>>

(***************************************************************************)
(* Results of a call.                                                      *)
(***************************************************************************)
Ok(v) == [kind |-> "ok", val |-> v]
Err(v, m, d) == [kind |-> "err", val |-> v, msg |-> m, detail |-> d]
Panic == [kind |-> "panic"]
NoRet == [kind |-> "none"]
Nil == [kind |-> "nil"]

(***************************************************************************)
(* Unsigned integers of any size: sequences of limbs in base 2^16, least   *)
(* significant limb first.  uint64 keeps the four low limbs.               *)
(***************************************************************************)
Base == 2^16
NLimbs == 64 \div 16

RECURSIVE BigMulSmall(_, _, _)
BigMulSmall(a, m, carry) ==
  IF a = <<>>
  THEN IF carry = 0 THEN <<>> ELSE <<carry>>
  ELSE LET t == Head(a) * m + carry
       IN  <<t % Base>> \o BigMulSmall(Tail(a), m, t \div Base)

RECURSIVE BigAddC(_, _, _)
BigAddC(a, b, carry) ==
  IF a = <<>> /\ b = <<>>
  THEN IF carry = 0 THEN <<>> ELSE <<carry>>
  ELSE LET x == IF a = <<>> THEN 0 ELSE Head(a)
           y == IF b = <<>> THEN 0 ELSE Head(b)
           t == x + y + carry
       IN  <<t % Base>> \o BigAddC(IF a = <<>> THEN a ELSE Tail(a),
                                   IF b = <<>> THEN b ELSE Tail(b), t \div Base)

BigAdd(a, b) == BigAddC(a, b, 0)

\* quotient of a by the small divisor d, by long division from the top limb
RECURSIVE BigDivRem(_, _)
BigDivRem(a, d) ==
  IF a = <<>>
  THEN [q |-> <<>>, r |-> 0]
  ELSE LET hi == BigDivRem(Tail(a), d)
           t  == hi.r * Base + Head(a)
       IN  [q |-> <<t \div d>> \o hi.q, r |-> t % d]

BigDivSmall(a, d) == BigDivRem(a, d).q

RECURSIVE BigIsZero(_)
BigIsZero(a) == a = <<>> \/ (Head(a) = 0 /\ BigIsZero(Tail(a)))

\* a < 2^64
FitsU64(a) == Len(a) <= NLimbs \/ BigIsZero(SubSeq(a, NLimbs + 1, Len(a)))

\* conversion to uint64: the value modulo 2^64
ToU64(a) == [i \in 1..NLimbs |-> IF i <= Len(a) THEN a[i] ELSE 0]

\* the same number, written without high zero limbs
RECURSIVE BigNorm(_)
BigNorm(a) ==
  IF a = <<>> THEN <<>>
  ELSE IF a[Len(a)] = 0 THEN BigNorm(SubSeq(a, 1, Len(a) - 1)) ELSE a

U64Zero == ToU64(<<>>)
U64Add(a, b) == ToU64(BigAdd(a, b))
U64Mul2(a) == ToU64(BigMulSmall(a, 2, 0))

(***************************************************************************)
(* Strings.                                                                *)
(***************************************************************************)
Ch(s, i) == SubSeq(s, i, i)
Drop(s, n) == SubSeq(s, n + 1, Len(s))
Take(s, n) == SubSeq(s, 1, IF n < Len(s) THEN n ELSE Len(s))

Digits == <<"0", "1", "2", "3", "4", "5", "6", "7", "8", "9">>
IsDigit(c) == \E i \in 1..10 : Digits[i] = c
DigitVal(c) == (CHOOSE i \in 1..10 : Digits[i] = c) - 1

IsSpace(c) == c \in {" ", "\t", "\n", "\r"}

Upper == "ABCDEFGHIJKLMNOPQRSTUVWXYZ"
Lower == "abcdefghijklmnopqrstuvwxyz"

RECURSIVE ToLower(_)
ToLower(s) ==
  IF Len(s) = 0 THEN s
  ELSE LET c == Ch(s, 1)
           u == {i \in 1..Len(Upper) : Ch(Upper, i) = c}
       IN  (IF u = {} THEN c ELSE Ch(Lower, CHOOSE i \in u : TRUE)) \o ToLower(Drop(s, 1))

RECURSIVE TrimLeft(_)
TrimLeft(s) == IF Len(s) > 0 /\ IsSpace(Ch(s, 1)) THEN TrimLeft(Drop(s, 1)) ELSE s

RECURSIVE TrimRight(_)
TrimRight(s) ==
  IF Len(s) > 0 /\ IsSpace(Ch(s, Len(s))) THEN TrimRight(Take(s, Len(s) - 1)) ELSE s

TrimSpace(s) == TrimRight(TrimLeft(s))

RECURSIVE WordLen(_)
WordLen(s) == IF Len(s) > 0 /\ ~IsSpace(Ch(s, 1)) THEN 1 + WordLen(Drop(s, 1)) ELSE 0

RECURSIVE Fields(_)
Fields(s) ==
  LET t == TrimLeft(s)
  IN  IF Len(t) = 0 THEN <<>>
      ELSE LET n == WordLen(t) IN <<Take(t, n)>> \o Fields(Drop(t, n))

HasPrefix(s, p) == Len(s) >= Len(p) /\ Take(s, Len(p)) = p

\* strings.SplitAfter(s, sep) for a one-character separator
RECURSIVE SplitAfter(_, _)
SplitAfter(s, sep) ==
  LET hits == {i \in 1..Len(s) : Ch(s, i) = sep}
  IN  IF hits = {} THEN <<s>>
      ELSE LET i == CHOOSE j \in hits : \A k \in hits : j <= k
           IN  <<Take(s, i)>> \o SplitAfter(Drop(s, i), sep)

(***************************************************************************)
(* Numbers in text.                                                        *)
(***************************************************************************)
\* the number written by a string of decimal digits
RECURSIVE FromDecimal(_)
FromDecimal(s) ==
  IF Len(s) = 0 THEN <<>>
  ELSE BigAdd(BigMulSmall(FromDecimal(Take(s, Len(s) - 1)), 10, 0),
              <<DigitVal(Ch(s, Len(s)))>>)

AllDigits(s) == \A i \in 1..Len(s) : IsDigit(Ch(s, i))

\* strconv.ParseUint(s, 10, 64): decimal digits only, value below 2^64
MaxUint64 == ToU64(<<Base - 1, Base - 1, Base - 1, Base - 1>>)

ParseUint64Value(s, v) ==
  IF ~FitsU64(v) THEN Err(MaxUint64, "strconv.ParseUint: value out of range", s)
  ELSE Ok(ToU64(v))

ParseUint64(s) ==
  IF Len(s) = 0 \/ ~AllDigits(s) THEN Err(U64Zero, "strconv.ParseUint: invalid syntax", s)
  ELSE ParseUint64Value(s, FromDecimal(s))

RECURSIVE RemoveAll(_, _)
RemoveAll(s, c) ==
  IF Len(s) = 0 THEN s
  ELSE (IF Ch(s, 1) = c THEN "" ELSE Ch(s, 1)) \o RemoveAll(Drop(s, 1), c)

RECURSIVE BigMulPow(_, _, _)
BigMulPow(a, m, n) == IF n = 0 THEN a ELSE BigMulPow(BigMulSmall(a, m, 0), m, n - 1)

RECURSIVE BigDivPow(_, _, _)
BigDivPow(a, d, n) == IF n = 0 THEN a ELSE BigDivPow(BigDivSmall(a, d), d, n - 1)

\* humanize's bytesSizeTable: a unit name is a multiplier m^n
SizeUnits ==
  [name \in {"", "b"} |-> <<1, 0>>] @@
  ("kib" :> <<1024, 1>>) @@ ("ki" :> <<1024, 1>>) @@ ("kb" :> <<1000, 1>>) @@ ("k" :> <<1000, 1>>) @@
  ("mib" :> <<1024, 2>>) @@ ("mi" :> <<1024, 2>>) @@ ("mb" :> <<1000, 2>>) @@ ("m" :> <<1000, 2>>) @@
  ("gib" :> <<1024, 3>>) @@ ("gi" :> <<1024, 3>>) @@ ("gb" :> <<1000, 3>>) @@ ("g" :> <<1000, 3>>) @@
  ("tib" :> <<1024, 4>>) @@ ("ti" :> <<1024, 4>>) @@ ("tb" :> <<1000, 4>>) @@ ("t" :> <<1000, 4>>) @@
  ("pib" :> <<1024, 5>>) @@ ("pi" :> <<1024, 5>>) @@ ("pb" :> <<1000, 5>>) @@ ("p" :> <<1000, 5>>) @@
  ("eib" :> <<1024, 6>>) @@ ("ei" :> <<1024, 6>>) @@ ("eb" :> <<1000, 6>>) @@ ("e" :> <<1000, 6>>)

\* the length of the leading run of digits, '.' and ','
RECURSIVE NumPrefixLen(_)
NumPrefixLen(s) ==
  IF Len(s) > 0 /\ (IsDigit(Ch(s, 1)) \/ Ch(s, 1) \in {".", ","})
  THEN 1 + NumPrefixLen(Drop(s, 1)) ELSE 0

\* humanize.ParseBytes: <number><unit>; the number times the unit, truncated
\* to a whole number of bytes; an error at 2^64 and above.
\* ParseBytesValue: the result for the product v
ParseBytesValue(s, v) == IF ~FitsU64(v) THEN Err(U64Zero, "too large", s) ELSE Ok(ToU64(v))

\* ParseBytesScale: the mantissa times the unit u = <<m, n>> (m^n), with frac
\* digits after the decimal point
ParseBytesScale(s, mant, u, frac) ==
  ParseBytesValue(s, BigDivPow(BigMulPow(mant, u[1], u[2]), 10, frac))

\* ParseBytesUnit: num is the number as written, extra the unit name
ParseBytesUnit(s, num, extra) ==
  LET dots == {i \in 1..Len(num) : Ch(num, i) = "."}
  IN  IF Len(num) = Cardinality(dots) \/ Cardinality(dots) > 1
      THEN Err(U64Zero, "strconv.ParseFloat: invalid syntax", num)
      ELSE IF extra \notin DOMAIN SizeUnits
      THEN Err(U64Zero, "unhandled size name", extra)
      ELSE ParseBytesScale(s, FromDecimal(RemoveAll(num, ".")), SizeUnits[extra],
                           IF dots = {} THEN 0 ELSE Len(num) - (CHOOSE i \in dots : TRUE))

\* ParseBytesSplit: the first n characters are the number, the rest the unit
ParseBytesSplit(s, n) ==
  ParseBytesUnit(s, RemoveAll(Take(s, n), ","), ToLower(TrimSpace(Drop(s, n))))

ParseBytes(s) == ParseBytesSplit(s, NumPrefixLen(s))

parseSize(size) == ParseBytes(size)

(***************************************************************************)
(* The data model: Device, DFData, Subvolume, FileSystem.                  *)
(***************************************************************************)
Device(id, size, used, path) == [DevID |-> id, Size |-> size, Used |-> used, Path |-> path]

DFData(type, level, total, used) ==
  [DataType |-> type, Level |-> level, Total |-> total, Used |-> used]

FileSystem(label, uuid, totalDevices, usedBytes, version, devices, subvolumes, dfData) ==
  [Label |-> label, UUID |-> uuid, TotalDevices |-> totalDevices, UsedBytes |-> usedBytes,
   Version |-> version, devices |-> devices, subvolumes |-> subvolumes, dfData |-> dfData]

(***************************************************************************)
(* Derived metrics.                                                        *)
(***************************************************************************)
\* a guessed multiplier of 1 for a level the switch does not name
UsedTotal_guess(df) ==
  CASE df.Level = "single" -> Ok(df.Used)
    [] df.Level \in {"dup", "raid-1"} -> Ok(U64Mul2(df.Used))
    [] OTHER -> Ok(df.Used)

UsedTotal(df) ==
  CASE df.Level = "single" -> Ok(df.Used)
    [] df.Level \in {"dup", "raid-1"} -> Ok(U64Mul2(df.Used))
    [] OTHER -> Err(U64Zero, "Unknown level", df.Level)

\* the loop of GetUsedBytes from record i on, total being the sum so far
RECURSIVE UsedLoop(_, _, _)
UsedLoop(dfData, i, total) ==
  IF i > Len(dfData) THEN Ok(total)
  ELSE LET u == UsedTotal(dfData[i])
       IN  IF u.kind = "err" THEN Err(U64Zero, u.msg, u.detail)
           ELSE UsedLoop(dfData, i + 1, U64Add(total, u.val))

\* a loop that skips the record whose level is unknown
RECURSIVE UsedLoop_skip(_, _, _)
UsedLoop_skip(dfData, i, total) ==
  IF i > Len(dfData) THEN Ok(total)
  ELSE LET u == UsedTotal(dfData[i])
       IN  IF u.kind = "err" THEN UsedLoop_skip(dfData, i + 1, total)
           ELSE UsedLoop_skip(dfData, i + 1, U64Add(total, u.val))

GetUsedBytes_skip(f) == UsedLoop_skip(f.dfData, 1, U64Zero)

GetUsedBytes(f) == UsedLoop(f.dfData, 1, U64Zero)

RECURSIVE SizeLoop(_, _, _)
SizeLoop(devices, i, total) ==
  IF i > Len(devices) THEN total
  ELSE SizeLoop(devices, i + 1, U64Add(total, devices[i].Size))

RECURSIVE AllocLoop(_, _, _)
AllocLoop(devices, i, total) ==
  IF i > Len(devices) THEN total
  ELSE AllocLoop(devices, i + 1, U64Add(total, devices[i].Used))

TotalBytes(f) == SizeLoop(f.devices, 1, U64Zero)

\* the sum of the wrong column
AllocatedBytes_size(f) == SizeLoop(f.devices, 1, U64Zero)

AllocatedBytes(f) == AllocLoop(f.devices, 1, U64Zero)

DF(f) == f.dfData
Devices(f) == f.devices
Subvolumes(f) == f.subvolumes

(***************************************************************************)
(* parseFSShow: the "btrfs fi show" report.                                *)
(***************************************************************************)
RECURSIVE Join(_, _)
Join(lines, sep) ==
  IF Len(lines) = 0 THEN ""
  ELSE IF Len(lines) = 1 THEN lines[1]
  ELSE lines[1] \o sep \o Join(Tail(lines), sep)

\* line 0: "Label: <label>  uuid: <uuid>"
parseLabelLine(fields, line, st) ==
  IF Len(fields) = 0 THEN Panic
  ELSE IF fields[1] # "Label:" THEN Err(Nil, "expected label and uuid, got", line)
  ELSE IF Len(fields) # 4 THEN Err(Nil, "unexpected fields for FS info", line)
  ELSE Ok([st EXCEPT !.label = fields[2], !.uuid = fields[4]])

\* the last line: "Btrfs <version>"
parseVersionLine(fields, line, st) ==
  IF Len(fields) = 0 THEN Panic
  ELSE IF fields[1] # "Btrfs" THEN Err(Nil, "expected btrfs version, got", line)
  ELSE IF Len(fields) # 2 THEN Err(Nil, "unexpected fields for version output", line)
  ELSE Ok([st EXCEPT !.version = fields[2]])

\* the values of a line 1 that has its 7 fields: n of fields[2], u of
\* fields[6]
parseTotalValues(st, n, u) ==
  IF n.kind = "err" THEN Err(Nil, n.msg, n.detail)
  ELSE IF u.kind = "err" THEN Err(Nil, u.msg, u.detail)
  ELSE Ok([st EXCEPT !.totalDevices = n.val, !.usedBytes = u.val])

\* line 1: "Total devices <N> FS bytes used <size>"; the test of the two
\* leading tokens is the code's conjunction, evaluated left to right
parseTotalLine(fields, line, st) ==
  IF Len(fields) = 0 THEN Panic
  ELSE IF fields[1] # "Total" /\ Len(fields) < 2 THEN Panic
  ELSE IF fields[1] # "Total" /\ fields[2] # "devices"
  THEN Err(Nil, "Expected Total Device content, got", line)
  ELSE IF Len(fields) # 7 THEN Err(Nil, "unexpected fields for total device line", line)
  ELSE parseTotalValues(st, ParseUint64(fields[3]), parseSize(fields[7]))

\* the values of a device line that has its 8 fields
parseDeviceValues(fields, st, size, used) ==
  IF size.kind = "err" THEN Err(Nil, "error parsing device size", size.msg)
  ELSE IF used.kind = "err" THEN Err(Nil, "error parsing device used bytes", used.msg)
  ELSE Ok([st EXCEPT !.devices =
             Append(@, Device(fields[2], size.val, used.val, fields[8]))])

\* a device line with size and used taken from each other's field
parseDeviceLine_swapped(fields, line, st) ==
  IF Len(fields) = 0 THEN Ok(st)
  ELSE IF fields[1] # "devid" THEN Err(Nil, "expected btrfs device content, got", line)
  ELSE IF Len(fields) # 8 THEN Err(Nil, "unexpected fields for device line", line)
  ELSE parseDeviceValues(fields, st, parseSize(fields[6]), parseSize(fields[4]))

\* any other line: blank, or "devid <id> size <size> used <size> path <path>"
parseDeviceLine(fields, line, st) ==
  IF Len(fields) = 0 THEN Ok(st)
  ELSE IF fields[1] # "devid" THEN Err(Nil, "expected btrfs device content, got", line)
  ELSE IF Len(fields) # 8 THEN Err(Nil, "unexpected fields for device line", line)
  ELSE parseDeviceValues(fields, st, parseSize(fields[4]), parseSize(fields[6]))

\* the switch on lineNum: case 0, case lineCount - 1, case 1, default, the
\* first case that matches being taken
parseShowFields(lineCount, lineNum, st, fields, line) ==
  IF lineNum = 0 THEN parseLabelLine(fields, line, st)
  ELSE IF lineNum = lineCount - 1 THEN parseVersionLine(fields, line, st)
  ELSE IF lineNum = 1 THEN parseTotalLine(fields, line, st)
  ELSE parseDeviceLine(fields, line, st)

\* one pass of the loop: the line trimmed, its fields, the switch
parseShowLine(lines, lineNum, st) ==
  parseShowFields(Len(lines), lineNum, st, Fields(TrimSpace(lines[lineNum + 1])),
                  TrimSpace(lines[lineNum + 1]))

\* the loop over lines: ShowStep is the end of one pass, with the result r
\* of the line
RECURSIVE ShowLoop(_, _, _)
RECURSIVE ShowStep(_, _, _)
ShowStep(lines, lineNum, r) ==
  IF r.kind = "ok" THEN ShowLoop(lines, lineNum + 1, r.val) ELSE r

ShowLoop(lines, lineNum, st) ==
  IF lineNum >= Len(lines)
  THEN Ok(FileSystem(st.label, st.uuid, st.totalDevices, st.usedBytes, st.version,
                     st.devices, <<>>, <<>>))
  ELSE ShowStep(lines, lineNum, parseShowLine(lines, lineNum, st))

ShowZero ==
  [label |-> "", uuid |-> "", version |-> "", totalDevices |-> U64Zero,
   usedBytes |-> U64Zero, devices |-> <<>>]

parseFSShow(lines) ==
  IF Len(lines) < 2
  THEN Err(Nil, "unexpected output, check permissions", Join(lines, "\n"))
  ELSE ShowLoop(lines, 0, ShowZero)

(***************************************************************************)
(* parseDF: the "btrfs fi df" report.                                      *)
(***************************************************************************)
\* "return []DFData{}, err": the error of r beside the value zero
ErrWith(zero, r) == IF r.kind = "err" THEN Err(zero, r.msg, r.detail) ELSE r

\* "<key><size>": the size is what follows the "=" of the field
parseKeyValue(field, key, line) ==
  IF HasPrefix(field, key)
  THEN ErrWith(<<>>, parseSize(SplitAfter(field, "=")[2]))
  ELSE Err(<<>>, "expected " \o Take(key, Len(key) - 1) \o " field", line)

\* the record of a line whose two sizes were read as total and used
parseDFValues(fields, total, used) ==
  IF total.kind = "err" THEN total
  ELSE IF used.kind = "err" THEN used
  ELSE Ok(DFData(fields[1], fields[2], total.val, used.val))

\* the switch on fields[0]
parseDFFields(fields, line) ==
  IF Len(fields) = 0 THEN Panic
  ELSE IF fields[1] \notin {"Data", "System", "Metadata", "GlobalReserve"}
  THEN Err(<<>>, "Unknown fields", line)
  ELSE IF Len(fields) # 4 THEN Err(<<>>, "Unknown fields", line)
  ELSE parseDFValues(fields, parseKeyValue(fields[3], "total=", line),
                     parseKeyValue(fields[4], "used=", line))

\* one pass of the loop: the line trimmed, its fields, the switch
parseDFLine(rawLine) == parseDFFields(Fields(TrimSpace(rawLine)), TrimSpace(rawLine))

\* the loop over lines: DFStep is the end of one pass, with the result r of
\* the line
RECURSIVE DFLoop(_, _, _)
RECURSIVE DFStep(_, _, _, _)
DFStep(lines, i, df, r) ==
  IF r.kind = "ok" THEN DFLoop(lines, i + 1, Append(df, r.val)) ELSE r

DFLoop(lines, i, df) ==
  IF i > Len(lines) THEN Ok(df) ELSE DFStep(lines, i, df, parseDFLine(lines[i]))

parseDF(lines) ==
  IF Len(lines) < 3 THEN Err(<<>>, "insufficient output", Join(lines, "/n"))
  ELSE DFLoop(lines, 1, <<>>)

(***************************************************************************)
(* readSubvolume: the "btrfs subvolume show" report of one subvolume.      *)
(***************************************************************************)
HexDigits == "0123456789abcdef"
HexVal(c) == (CHOOSE i \in 1..Len(HexDigits) : Ch(HexDigits, i) = ToLower(c)) - 1
IsDigitOf(c, b) == \E i \in 1..b : Ch(HexDigits, i) = ToLower(c)

RECURSIVE FromDigits(_, _)
FromDigits(s, b) ==
  IF Len(s) = 0 THEN <<>>
  ELSE BigAdd(BigMulSmall(FromDigits(Take(s, Len(s) - 1), b), b, 0),
              <<HexVal(Ch(s, Len(s)))>>)

\* strconv.ParseUint(s, 0, 32): the base is read from the prefix of s, the
\* value is below 2^32 (digit separators "_" are not modelled)
MaxUint32 == ToU64(<<Base - 1, Base - 1>>)

ParseUint32Value(s, v) ==
  IF Len(BigNorm(v)) > 2 THEN Err(MaxUint32, "strconv.ParseUint: value out of range", s)
  ELSE Ok(ToU64(v))

\* the digits and the base, as <<digits, base>>, in base 0
ParseUint32Digits(s, d) ==
  IF Len(d[1]) = 0 \/ \E i \in 1..Len(d[1]) : ~IsDigitOf(Ch(d[1], i), d[2])
  THEN Err(U64Zero, "strconv.ParseUint: invalid syntax", s)
  ELSE ParseUint32Value(s, FromDigits(d[1], d[2]))

\* p2 is the prefix of s that may name the base
ParseUint32Base(s, p2) ==
  IF p2 = "0x" THEN <<Drop(s, 2), 16>>
  ELSE IF p2 = "0b" THEN <<Drop(s, 2), 2>>
  ELSE IF p2 = "0o" THEN <<Drop(s, 2), 8>>
  ELSE IF Len(s) > 1 /\ Ch(s, 1) = "0" THEN <<Drop(s, 1), 8>>
  ELSE <<s, 10>>

ParseUint32(s) == ParseUint32Digits(s, ParseUint32Base(s, ToLower(Take(s, 2))))

ZeroTime == "0001-01-01 00:00:00"

\* time.Parse("2005-01-2 03:04:05", value).  The layout reads: day, "0",
\* seconds, "-", month, "-", day, " ", hour, ":", minute, ":", seconds.  A
\* value that is one whitespace-separated field holds no space, so the
\* elements after the layout's space find nothing to read: the parse fails
\* for every field.
TimeParse(value) == Err(ZeroTime, "parsing time", value)

SubvolumeZero ==
  [Name |-> "", UUID |-> "", ParentUUID |-> "", CreationTime |-> ZeroTime, ID |-> "",
   Gen |-> U64Zero, GenAtCreation |-> U64Zero, Parent |-> U64Zero, TopLevel |-> U64Zero,
   Path |-> ""]

\* the value of a detail field as its case reads it: kept as text, or through
\* time.Parse, or through strconv.ParseUint
Plain(x) == Ok(x)

DetailValue(how, text) ==
  CASE how = "time" -> TimeParse(text)
    [] how = "uint" -> ParseUint32(text)
    [] OTHER -> Plain(text)

\* the value v of a detail field stored in member key of sv
DetailStore(line, sv, what, key, v) ==
  IF v.kind = "err" THEN Err(Nil, what, line) ELSE Ok([sv EXCEPT ![key] = v.val])

\* fields[n] (Go index n) of a detail line, stored in member key of sv
DetailField(fields, n, line, sv, what, how, key) ==
  IF Len(fields) < n + 1 THEN Panic
  ELSE DetailStore(line, sv, what, key, DetailValue(how, fields[n + 1]))

\* the cases of the switch on fields[0] that store a field: the Go index of
\* the field, the text of the error, how the field is read, the member
DetailCases ==
  ("Name:" :> <<1, "", "text", "Name">>) @@
  ("uuid:" :> <<1, "", "text", "UUID">>) @@
  ("Parent" :> <<2, "", "text", "ParentUUID">>) @@
  ("Creation" :> <<2, "error parsing timestatmp", "time", "CreationTime">>) @@
  ("Object" :> <<2, "", "text", "ID">>) @@
  ("Generation" :> <<2, "error parsing timestatmp", "uint", "Gen">>) @@
  ("Gen" :> <<3, "error parsing Generation", "uint", "GenAtCreation">>) @@
  ("Parent:" :> <<1, "error parsing Parent", "uint", "Parent">>) @@
  ("Top" :> <<2, "error parsing Top", "uint", "TopLevel">>)

DetailCase(fields, line, sv, c) == DetailField(fields, c[1], line, sv, c[2], c[3], c[4])

\* the switch on fields[0]
parseDetailFields(fields, line, sv) ==
  IF Len(fields) = 0 THEN Panic
  ELSE IF fields[1] \in DOMAIN DetailCases
  THEN DetailCase(fields, line, sv, DetailCases[fields[1]])
  ELSE Ok(sv)

\* one line of the report after the first: the line trimmed, its fields, the
\* switch
parseDetailLine(rawLine, sv) ==
  parseDetailFields(Fields(TrimSpace(rawLine)), TrimSpace(rawLine), sv)

RECURSIVE DetailLoop(_, _, _)
RECURSIVE DetailStep(_, _, _)
DetailStep(svLines, lineNum, r) ==
  IF r.kind = "ok" THEN DetailLoop(svLines, lineNum + 1, r.val) ELSE r

DetailLoop(svLines, lineNum, sv) ==
  IF lineNum >= Len(svLines) THEN Ok(sv)
  ELSE IF lineNum = 0 THEN DetailLoop(svLines, 1, sv)
  ELSE DetailStep(svLines, lineNum, parseDetailLine(svLines[lineNum + 1], sv))

(***************************************************************************)
(* A command that was run: what it wrote to stdout and stderr, and whether *)
(* reading its pipes failed.                                               *)
(***************************************************************************)
Cmd(out, err, io) == [out |-> out, err |-> err, io |-> io]
NoCmd == [kind |-> "nocmd"]

readSubvolume(cmd) ==
  IF cmd.io THEN Err(Nil, "io", "")
  ELSE IF Len(cmd.err) # 0 THEN Err(Nil, "Error reading btrfs subvolume show", Join(cmd.err, " "))
  ELSE DetailLoop(cmd.out, 0, SubvolumeZero)

readFileSystem(cmd) ==
  IF cmd.io THEN Err(Nil, "io", "")
  ELSE IF Len(cmd.err) # 0 THEN Err(Nil, "Error reading btrfs fi show", Join(cmd.err, " "))
  ELSE parseFSShow(cmd.out)

readDfData(cmd) ==
  IF cmd.io THEN Err(Nil, "io", "")
  ELSE IF Len(cmd.err) # 0 THEN Err(Nil, "Error reading btrfs fi df", Join(cmd.err, " "))
  ELSE parseDF(cmd.out)

(***************************************************************************)
(* Bounded inputs.                                                         *)
(***************************************************************************)
MaxDevices == 2
MaxRecords == 2

BSeq(S, n) == UNION {[1..k -> S] : k \in 0..n}

\* byte counts as the size decoder produces them
Bytes(text) == parseSize(text).val

DeviceSet ==
  {Device("1", Bytes(size), Bytes(used), "/dev/sdc1") :
     size \in {"40.00GiB", "8EiB"}, used \in {"16.01GiB", "8EiB"}}

RecordSet ==
  {DFData("Data", level, Bytes("9.00GiB"), Bytes(used)) :
     level \in {"single", "dup", "raid-1", "DUP", "raid-5"}, used \in {"16.00KiB", "8EiB"}}

NoCall == [op |-> "none", arg |-> 0, res |-> NoRet]
Call(op, arg, res) == [op |-> op, arg |-> arg, res |-> res]

(***************************************************************************)
(* Calls of the metrics on an aggregate that exists (pc = "ready").        *)
(***************************************************************************)
CallUsedTotal ==
  /\ pc = "ready"
  /\ \E i \in 1..Len(fs.dfData) : ret' = Call("UsedTotal", i, UsedTotal(fs.dfData[i]))
  /\ UNCHANGED <<pc, args, fs, svs>>

CallGetUsedBytes ==
  /\ pc = "ready"
  /\ ret' = Call("GetUsedBytes", 0, GetUsedBytes(fs))
  /\ UNCHANGED <<pc, args, fs, svs>>

CallAllocatedBytes ==
  /\ pc = "ready"
  /\ ret' = Call("AllocatedBytes", 0, Ok(AllocatedBytes(fs)))
  /\ UNCHANGED <<pc, args, fs, svs>>

CallTotalBytes ==
  /\ pc = "ready"
  /\ ret' = Call("TotalBytes", 0, Ok(TotalBytes(fs)))
  /\ UNCHANGED <<pc, args, fs, svs>>

CallDevices ==
  /\ pc = "ready"
  /\ ret' = Call("Devices", 0, Ok(Devices(fs)))
  /\ UNCHANGED <<pc, args, fs, svs>>

CallDF ==
  /\ pc = "ready"
  /\ ret' = Call("DF", 0, Ok(DF(fs)))
  /\ UNCHANGED <<pc, args, fs, svs>>

CallSubvolumes ==
  /\ pc = "ready"
  /\ ret' = Call("Subvolumes", 0, Ok(Subvolumes(fs)))
  /\ UNCHANGED <<pc, args, fs, svs>>

NoLoop == [idx |-> 0, sv |-> <<>>, started |-> <<>>]

(***************************************************************************)
(* SpecMetrics: the metrics on every aggregate with up to MaxDevices       *)
(* devices and MaxRecords space-usage records.                             *)
(***************************************************************************)
InitMetrics ==
  /\ pc = "ready"
  /\ args = NoCmd
  /\ fs \in {FileSystem("none", "abc-123", U64Zero, U64Zero, "v3.12", devs, <<>>, dfs) :
               devs \in BSeq(DeviceSet, MaxDevices), dfs \in BSeq(RecordSet, MaxRecords)}
  /\ ret = NoCall
  /\ svs = NoLoop

NextMetrics ==
  \/ CallUsedTotal
  \/ CallGetUsedBytes
  \/ CallAllocatedBytes
  \/ CallTotalBytes

SpecMetrics == InitMetrics /\ [][NextMetrics]_vars

(***************************************************************************)
(* Sums as numbers, without the width of uint64.                           *)
(***************************************************************************)
RECURSIVE ExactSum(_)
ExactSum(xs) == IF xs = <<>> THEN <<>> ELSE BigAdd(Head(xs), ExactSum(Tail(xs)))

SameNumber(a, b) == BigNorm(a) = BigNorm(b)

Recognized(df) == df.Level \in {"single", "dup", "raid-1"}

(***************************************************************************)
(* C1 as stated: UsedTotal returns Used for "single", the number Used * 2  *)
(* for "dup" and "raid-1", and an error with the value 0 for every other   *)
(* level.                                                                  *)
(***************************************************************************)
C1_UsedTotalExact ==
  ret.op = "UsedTotal" =>
    LET df == fs.dfData[ret.arg]
    IN  /\ df.Level = "single" => ret.res = Ok(df.Used)
        /\ df.Level \in {"dup", "raid-1"} =>
             ret.res.kind = "ok" /\ SameNumber(ret.res.val, BigAdd(df.Used, df.Used))
        /\ ~Recognized(df) => ret.res.kind = "err" /\ ret.res.val = U64Zero

(***************************************************************************)
(* C1 amended: UsedTotal returns Used for "single"; Used * 2 reduced       *)
(* modulo 2^64 (the uint64 product) for "dup" and "raid-1", which is the   *)
(* number Used * 2 whenever that is below 2^64; and an error with the      *)
(* value 0 for every other level.                                          *)
(***************************************************************************)
C1_UsedTotalContract ==
  ret.op = "UsedTotal" =>
    LET df == fs.dfData[ret.arg]
    IN  /\ df.Level = "single" => ret.res = Ok(df.Used)
        /\ df.Level \in {"dup", "raid-1"} =>
             /\ ret.res = Ok(ToU64(BigAdd(df.Used, df.Used)))
             /\ FitsU64(BigAdd(df.Used, df.Used)) =>
                  SameNumber(ret.res.val, BigAdd(df.Used, df.Used))
        /\ ~Recognized(df) => ret.res.kind = "err" /\ ret.res.val = U64Zero

C1_Witness ==
  /\ ret.op = "UsedTotal"
  /\ fs.dfData[ret.arg].Level = "raid-1"
  /\ ret.res = Ok(Bytes("32.00KiB"))

(***************************************************************************)
(* C2 as stated: GetUsedBytes returns the sum of the per-record UsedTotal  *)
(* values when every level is recognized (0 for no record), and an error   *)
(* with the value 0 when any record, at any position, has an unrecognized  *)
(* level.                                                                  *)
(***************************************************************************)
C2_GetUsedBytesExact ==
  ret.op = "GetUsedBytes" =>
    IF \A i \in 1..Len(fs.dfData) : Recognized(fs.dfData[i])
    THEN /\ ret.res.kind = "ok"
         /\ SameNumber(ret.res.val,
                       ExactSum([i \in 1..Len(fs.dfData) |-> UsedTotal(fs.dfData[i]).val]))
    ELSE ret.res.kind = "err" /\ ret.res.val = U64Zero

(***************************************************************************)
(* C2 amended: when every level is recognized GetUsedBytes returns the sum *)
(* of the per-record UsedTotal values reduced modulo 2^64 (0 for no        *)
(* record), which is their sum whenever that is below 2^64; when any       *)
(* record, at any position, has an unrecognized level it returns an error  *)
(* and the value 0.                                                        *)
(***************************************************************************)
C2_GetUsedBytesContract ==
  ret.op = "GetUsedBytes" =>
    LET per == [i \in 1..Len(fs.dfData) |-> UsedTotal(fs.dfData[i]).val]
    IN  IF \A i \in 1..Len(fs.dfData) : Recognized(fs.dfData[i])
        THEN /\ ret.res = Ok(ToU64(ExactSum(per)))
             /\ FitsU64(ExactSum(per)) => SameNumber(ret.res.val, ExactSum(per))
             /\ fs.dfData = <<>> => ret.res = Ok(U64Zero)
        ELSE ret.res.kind = "err" /\ ret.res.val = U64Zero

C2_Witness ==
  /\ ret.op = "GetUsedBytes"
  /\ Len(fs.dfData) = 2
  /\ Recognized(fs.dfData[1]) /\ ~Recognized(fs.dfData[2])
  /\ ret.res.kind = "err"

(***************************************************************************)
(* C3 as stated: AllocatedBytes is the sum of the Used values of all       *)
(* devices (0 for no device), whatever the devices' Size values and the    *)
(* space-usage records are.                                                *)
(***************************************************************************)
C3_AllocatedBytesExact ==
  ret.op = "AllocatedBytes" =>
    /\ ret.res.kind = "ok"
    /\ SameNumber(ret.res.val, ExactSum([i \in 1..Len(fs.devices) |-> fs.devices[i].Used]))

(***************************************************************************)
(* C3 amended: AllocatedBytes is the sum of the Used values of all devices *)
(* reduced modulo 2^64 (0 for no device), which is their sum whenever that *)
(* is below 2^64, whatever the devices' Size values and the space-usage    *)
(* records are.                                                            *)
(***************************************************************************)
C3_AllocatedBytesContract ==
  ret.op = "AllocatedBytes" =>
    LET used == ExactSum([i \in 1..Len(fs.devices) |-> fs.devices[i].Used])
    IN  /\ ret.res = Ok(ToU64(used))
        /\ FitsU64(used) => SameNumber(ret.res.val, used)
        /\ fs.devices = <<>> => ret.res = Ok(U64Zero)

C3_Witness ==
  /\ ret.op = "AllocatedBytes"
  /\ Len(fs.devices) = 2
  /\ fs.devices[1].Size # fs.devices[2].Size
  /\ fs.dfData # <<>>
  /\ ret.res = Ok(Bytes("32.02GiB"))
  /\ ret.res.val # TotalBytes(fs)

(***************************************************************************)
(* SpecParse: the three line parsers on every report of bounded length     *)
(* over a vocabulary of lines, and on the reports named below.             *)
(***************************************************************************)
MaxShowLines == 5
MaxDFLines == 3
MaxDetailLines == 3

LabelLine == "Label: none  uuid: abc-123"
TotalLine == "Total devices 1 FS bytes used 14.67GiB"
TotalFooLine == "Total foo 1 FS bytes used 14.67GiB"
DevLine1 == "devid 1 size 40.00GiB used 16.01GiB path /dev/sdc1"
DevLine2 == "devid    2 size 40.00GiB used 16.01GiB path /dev/sdd1"
VersionLine == "Btrfs v3.12"

ShowVocab == {LabelLine, TotalLine, TotalFooLine, DevLine1, DevLine2, "", VersionLine}

\* the report of the scenario, and the report in the comment of parseFSShow
ScenarioShow == <<LabelLine, TotalLine, DevLine1, VersionLine>>
TwoDeviceShow ==
  <<"Label: none  uuid: b7c23711-6b9e-46a8-b451-4b3f79c7bc46",
    "\tTotal devices 2 FS bytes used 14.67GiB",
    "\tdevid    1 size 40.00GiB used 16.01GiB path /dev/sdc1",
    "\tdevid    2 size 40.00GiB used 16.01GiB path /dev/sdd1",
    "",
    "Btrfs v3.12">>

ShowInputs == BSeq(ShowVocab, MaxShowLines) \cup {ScenarioShow, TwoDeviceShow}

\* the lines in the comment of parseDF, as the tool writes them
DataSingleLine == "Data, single: total=9.00GiB, used=8.67GiB"
SystemDupLine == "System, DUP: total=32.00MiB, used=16.00KiB"
MetadataDupLine == "Metadata, DUP: total=1.00GiB, used=466.88MiB"
ToolDFLines == {DataSingleLine, SystemDupLine, MetadataDupLine}

\* the same lines without the punctuation after the first two tokens
PlainDFLines ==
  {"Data single total=9.00GiB used=8.67GiB",
   "System DUP total=32.00MiB used=16.00KiB",
   "Metadata dup total=1.00GiB used=466.88MiB"}

DFVocab == ToolDFLines \cup PlainDFLines \cup {""}

DFInputs == BSeq(DFVocab, MaxDFLines)

DetailVocab ==
  {"/mnt/btrfs/subvolumes/a",
   "\tName: \t\t\t3982a0c9",
   "\tName:",
   "\tCreation time: \t\t2015-06-17 10:31:09",
   "\tGeneration (Gen): \t37364",
   "\tSnapshot(s):",
   ""}

DetailInputs == BSeq(DetailVocab, MaxDetailLines)

ErrLines == {<<>>, <<"ERROR: not a btrfs filesystem">>}

InitParse ==
  /\ pc = "idle"
  /\ args = NoCmd
  /\ fs = Nil
  /\ ret = NoCall
  /\ svs = NoLoop

CallParseFSShow ==
  /\ pc = "idle"
  /\ \E lines \in ShowInputs : ret' = Call("parseFSShow", lines, parseFSShow(lines))
  /\ pc' = "done"
  /\ UNCHANGED <<args, fs, svs>>

CallParseDF ==
  /\ pc = "idle"
  /\ \E lines \in DFInputs : ret' = Call("parseDF", lines, parseDF(lines))
  /\ pc' = "done"
  /\ UNCHANGED <<args, fs, svs>>

CallReadSubvolume ==
  /\ pc = "idle"
  /\ \E out \in DetailInputs, err \in ErrLines, io \in BOOLEAN :
       ret' = Call("readSubvolume", Cmd(out, err, io), readSubvolume(Cmd(out, err, io)))
  /\ pc' = "done"
  /\ UNCHANGED <<args, fs, svs>>

NextParse ==
  \/ CallParseFSShow
  \/ CallParseDF
  \/ CallReadSubvolume

SpecParse == InitParse /\ [][NextParse]_vars

(***************************************************************************)
(* C10 as stated: each parser returns a record or an error for every       *)
(* sequence of lines; none reaches an out-of-range access to the fields of *)
(* a line.                                                                 *)
(***************************************************************************)
C10_ParsersTotal ==
  ret.op \in {"parseFSShow", "parseDF", "readSubvolume"} => ret.res.kind \in {"ok", "err"}

(***************************************************************************)
(* C4 as stated: parseFSShow returns an aggregate only when line 1 begins  *)
(* with "Total" "devices" and has 7 fields, TotalDevices being its third   *)
(* field; for every input of 2 or more lines whose line 1 is not of that   *)
(* form it returns an error and no aggregate.  (The inputs on which the    *)
(* parser crashes are the subject of C10 and are left aside here.)         *)
(***************************************************************************)
DeviceCountForm(line) ==
  LET f == Fields(line)
  IN  Len(f) = 7 /\ f[1] = "Total" /\ f[2] = "devices"

C4_DeviceCountLine ==
  ret.op = "parseFSShow" =>
    /\ ret.res.kind = "ok" =>
         /\ DeviceCountForm(ret.arg[2])
         /\ ParseUint64(Fields(ret.arg[2])[3]) = Ok(ret.res.val.TotalDevices)
    /\ (Len(ret.arg) >= 2 /\ ~DeviceCountForm(ret.arg[2]) /\ ret.res.kind # "panic") =>
         ret.res.kind = "err" /\ ret.res.val = Nil

(***************************************************************************)
(* C5: parseFSShow on the four lines of the scenario returns Label "none", *)
(* UUID "abc-123", Version "v3.12", TotalDevices 1 and one Device with     *)
(* DevID "1", Path "/dev/sdc1" and Size 42,949,672,960; and whenever it    *)
(* succeeds the devices are those of the non-blank lines between line 2    *)
(* and the second-to-last line, in input order.                            *)
(***************************************************************************)
MiddleDevices(lines) ==
  LET mid == SelectSeq(SubSeq(lines, 3, Len(lines) - 1), LAMBDA l : Fields(l) # <<>>)
  IN  [i \in 1..Len(mid) |->
         LET f == Fields(mid[i])
         IN  Device(f[2], parseSize(f[4]).val, parseSize(f[6]).val, f[8])]

C5_ShowScenario ==
  ret.op = "parseFSShow" =>
    /\ ret.arg = ScenarioShow =>
         /\ ret.res.kind = "ok"
         /\ ret.res.val.Label = "none"
         /\ ret.res.val.UUID = "abc-123"
         /\ ret.res.val.Version = "v3.12"
         /\ ret.res.val.TotalDevices = ToU64(FromDecimal("1"))
         /\ Len(ret.res.val.devices) = 1
         /\ ret.res.val.devices[1].DevID = "1"
         /\ ret.res.val.devices[1].Path = "/dev/sdc1"
         /\ ret.res.val.devices[1].Size = ToU64(FromDecimal("42949672960"))
    /\ ret.res.kind = "ok" =>
         /\ ret.res.val.devices = MiddleDevices(ret.arg)
         /\ \A i \in 3..(Len(ret.arg) - 1) :
              Fields(ret.arg[i]) = <<>> \/ Fields(ret.arg[i])[1] = "devid"

C5_Witness ==
  /\ ret.op = "parseFSShow"
  /\ ret.arg = TwoDeviceShow
  /\ ret.res.kind = "ok"
  /\ Len(ret.res.val.devices) = 2
  /\ ret.res.val.devices[1].Path = "/dev/sdc1"
  /\ ret.res.val.devices[2].Path = "/dev/sdd1"

(***************************************************************************)
(* C6 as stated: parseDF, given at least 3 lines in the tool's format,     *)
(* succeeds with one record per line in input order; the line              *)
(* "Data, single: total=9.00GiB, used=8.67GiB" yields DataType "Data",     *)
(* Level "single", Total 9,663,676,416 and an accounted usage equal to its *)
(* Used.                                                                   *)
(***************************************************************************)
C6_ToolFormatParses ==
  (/\ ret.op = "parseDF"
   /\ Len(ret.arg) >= 3
   /\ \A i \in 1..Len(ret.arg) : ret.arg[i] \in ToolDFLines) =>
    /\ ret.res.kind = "ok"
    /\ Len(ret.res.val) = Len(ret.arg)
    /\ \A i \in 1..Len(ret.arg) :
         /\ ret.res.val[i].DataType \o "," = Fields(ret.arg[i])[1]
         /\ ret.arg[i] = DataSingleLine =>
              /\ ret.res.val[i].DataType = "Data"
              /\ ret.res.val[i].Level = "single"
              /\ ret.res.val[i].Total = ToU64(FromDecimal("9663676416"))
              /\ UsedTotal(ret.res.val[i]) = Ok(ret.res.val[i].Used)

(***************************************************************************)
(* parseSubvolumes: the "btrfs subvolume list" report.  The loop runs one  *)
(* line at a time; for a line of 9 fields it runs "btrfs subvolume show"   *)
(* on the path of the line (readSubvolume).                                *)
(***************************************************************************)
MaxSvLines == 3

SvLineA == "ID 409 gen 527 top level 5 path btrfs/subvolumes/a"
SvLineB == "ID 410 gen 247 top level 5 path btrfs/subvolumes/b"
SvLine8 == "ID 411 gen 248 top level path btrfs/subvolumes/c"

SvVocab == {SvLineA, SvLineB, SvLine8, ""}

\* what "btrfs subvolume show" may answer
DetailCmds ==
  {Cmd(<<"/mnt/x", "\tName: \t\t\t3982a0c9", "\tObject ID: \t\t968", "\tSnapshot(s):">>, <<>>, FALSE),
   Cmd(<<"/mnt/x", "\tName: \t\t\t3982a0c9", "\tCreation time: \t\t2015-06-17 10:31:09">>, <<>>, FALSE),
   Cmd(<<"/mnt/x", "\tName: \t\t\t3982a0c9", "">>, <<>>, FALSE),
   Cmd(<<>>, <<"ERROR: not a subvolume">>, FALSE)}

\* a line that does not have 9 fields, returned with the subvolumes read so far
svLineCheck_partial(rawLine, sv) ==
  LET line   == TrimSpace(rawLine)
      fields == Fields(line)
  IN  IF Len(fields) # 9 THEN Err(sv, "unexpected output in line", line)
      ELSE Ok(fields[9])

\* the test of one line: an error, or the path of the subvolume
svLineCheck(rawLine, sv) ==
  LET line   == TrimSpace(rawLine)
      fields == Fields(line)
  IN  IF Len(fields) # 9 THEN Err(<<>>, "unexpected output in line", line)
      ELSE Ok(fields[9])

svPathOf(rootPath, subvolumePath) == rootPath \o "/" \o subvolumePath

InitSubvol ==
  /\ pc = "idle"
  /\ args = NoCmd
  /\ fs = Nil
  /\ ret = NoCall
  /\ svs = NoLoop

CallParseSubvolumes ==
  /\ pc = "idle"
  /\ \E path \in {"/mnt/x"}, lines \in BSeq(SvVocab, MaxSvLines) :
       args' = [op |-> "parseSubvolumes", path |-> path, lines |-> lines]
  /\ pc' = "loop"
  /\ svs' = [idx |-> 1, sv |-> <<>>, started |-> <<>>]
  /\ UNCHANGED <<fs, ret>>

\* readSubvolumes(path): "btrfs subvolume list", then parseSubvolumes on
\* what it wrote to stdout
CallReadSubvolumes ==
  /\ pc = "idle"
  /\ \E path \in {"/mnt/x"}, lines \in BSeq(SvVocab, MaxSvLines), err \in ErrLines,
        io \in BOOLEAN :
       /\ args' = [op |-> "readSubvolumes", path |-> path, lines |-> lines]
       /\ IF io \/ err # <<>>
          THEN /\ pc' = "done"
               /\ svs' = NoLoop
               /\ ret' = Call("readSubvolumes", lines,
                              IF io THEN Err(Nil, "io", "")
                              ELSE Err(Nil, "Error reading btrfs fi df", Join(err, " ")))
          ELSE /\ pc' = "loop"
               /\ svs' = [idx |-> 1, sv |-> <<>>, started |-> <<>>]
               /\ UNCHANGED ret
  /\ UNCHANGED fs

\* one turn of the loop on a line that fails the test
SvLoopBadLine ==
  /\ pc = "loop"
  /\ svs.idx <= Len(args.lines)
  /\ svLineCheck(args.lines[svs.idx], svs.sv).kind = "err"
  /\ ret' = Call("parseSubvolumes", args.lines, svLineCheck(args.lines[svs.idx], svs.sv))
  /\ pc' = "done"
  /\ UNCHANGED <<args, fs, svs>>

\* one turn of the loop on a line of 9 fields
SvLoopDetail ==
  /\ pc = "loop"
  /\ svs.idx <= Len(args.lines)
  /\ svLineCheck(args.lines[svs.idx], svs.sv).kind = "ok"
  /\ \E cmd \in DetailCmds :
       LET svPath == svPathOf(args.path, svLineCheck(args.lines[svs.idx], svs.sv).val)
           r      == readSubvolume(cmd)
       IN  IF r.kind = "ok"
           THEN /\ svs' = [idx |-> svs.idx + 1, sv |-> Append(svs.sv, r.val),
                           started |-> Append(svs.started, svPath)]
                /\ UNCHANGED <<pc, ret>>
           ELSE /\ svs' = [svs EXCEPT !.started = Append(@, svPath)]
                /\ pc' = "done"
                /\ ret' = Call("parseSubvolumes", args.lines,
                               IF r.kind = "err" THEN Err(<<>>, r.msg, r.detail) ELSE r)
  /\ UNCHANGED <<args, fs>>

SvReturn ==
  /\ pc = "loop"
  /\ svs.idx > Len(args.lines)
  /\ ret' = Call("parseSubvolumes", args.lines, Ok(svs.sv))
  /\ pc' = "done"
  /\ UNCHANGED <<args, fs, svs>>

NextSubvol ==
  \/ CallParseSubvolumes
  \/ CallReadSubvolumes
  \/ SvLoopBadLine
  \/ SvLoopDetail
  \/ SvReturn

SpecSubvol == InitSubvol /\ [][NextSubvol]_vars

(***************************************************************************)
(* C8: parseSubvolumes fails on the first line that does not have 9        *)
(* fields: it returns an error that carries the text of that line and no   *)
(* subvolume, and it starts no "subvolume show" for that line or for any   *)
(* later line.                                                             *)
(***************************************************************************)
NineFields(line) == Len(Fields(line)) = 9

\* the index of the first line without 9 fields, 0 when there is none;
\* svs.idx >= 1 in C8_FailFast says that parseSubvolumes has been entered
FirstBad(lines) ==
  LET bad == {i \in 1..Len(lines) : ~NineFields(lines[i])}
  IN  IF bad = {} THEN 0 ELSE CHOOSE i \in bad : \A j \in bad : i <= j

C8_FailFast ==
  (args # NoCmd /\ svs.idx >= 1 /\ FirstBad(args.lines) # 0) =>
    LET k == FirstBad(args.lines)
    IN  /\ Len(svs.started) < k
        /\ \A j \in 1..Len(svs.started) :
             svs.started[j] = args.path \o "/" \o Fields(args.lines[j])[9]
        /\ pc = "done" => ret.res.kind # "ok"
        /\ (pc = "done" /\ ret.res.kind = "err") => ret.res.val = <<>>
        /\ (pc = "done" /\ Len(svs.started) = k - 1 /\ svs.idx = k) =>
             ret.res = Err(<<>>, "unexpected output in line", TrimSpace(args.lines[k]))

C8_Witness ==
  /\ pc = "done"
  /\ args.lines = <<SvLineA, SvLine8, SvLineB>>
  /\ svs.started = <<"/mnt/x/btrfs/subvolumes/a">>
  /\ Len(svs.sv) = 1
  /\ ret.res = Err(<<>>, "unexpected output in line", SvLine8)

(***************************************************************************)
(* Spec: GetFileSystem, one command at a time, and the accessors on the    *)
(* aggregate it returns.                                                   *)
(***************************************************************************)
MaxListLines == 2

Paths == {"", "  ", "/mnt/x"}

ShowCmds ==
  {Cmd(ScenarioShow, <<>>, FALSE),
   Cmd(TwoDeviceShow, <<>>, FALSE),
   Cmd(<<LabelLine, VersionLine>>, <<>>, FALSE),
   Cmd(<<>>, <<"ERROR: not a btrfs filesystem">>, FALSE),
   Cmd(<<>>, <<>>, TRUE)}

\* the report in the comment of parseDF, and reports without its punctuation
ToolDF == <<DataSingleLine, SystemDupLine, MetadataDupLine>>

DFCmds ==
  {Cmd(ToolDF, <<>>, FALSE),
   Cmd(<<"Data single total=9.00GiB used=8.67GiB",
         "System DUP total=32.00MiB used=16.00KiB",
         "Metadata DUP total=1.00GiB used=466.88MiB">>, <<>>, FALSE),
   Cmd(<<"Data single total=9.00GiB used=8.67GiB",
         "System dup total=32.00MiB used=16.00KiB",
         "Metadata raid-1 total=1.00GiB used=466.88MiB">>, <<>>, FALSE),
   Cmd(<<"Data single total=9.00GiB used=8.67GiB">>, <<>>, FALSE),
   Cmd(<<>>, <<"ERROR: not a btrfs filesystem">>, FALSE)}

\* "btrfs subvolume list" through CombinedOutput: its lines, and whether the
\* command failed
ListCmds ==
  {[out |-> lines, failed |-> failed] :
     lines \in BSeq({SvLineA, SvLineB}, MaxListLines), failed \in BOOLEAN}

Init ==
  /\ pc = "idle"
  /\ args = NoCmd
  /\ fs = Nil
  /\ ret = NoCall
  /\ svs = NoLoop

\* GetFileSystem(path) up to the first command
GetFileSystemCall ==
  /\ pc = "idle"
  /\ \E path \in Paths :
       /\ args' = [op |-> "GetFileSystem", path |-> path, show |-> NoCmd, df |-> NoCmd,
                   list |-> NoCmd]
       /\ IF TrimSpace(path) = ""
          THEN /\ pc' = "failed"
               /\ ret' = Call("GetFileSystem", path, Err(Nil, "path cannot be empty", ""))
          ELSE /\ pc' = "show"
               /\ UNCHANGED ret
  /\ UNCHANGED <<fs, svs>>

\* fs, err := readFileSystem(path)
GetFileSystemShow ==
  /\ pc = "show"
  /\ \E cmd \in ShowCmds :
       LET r == readFileSystem(cmd)
       IN  /\ args' = [args EXCEPT !.show = cmd]
           /\ IF r.kind = "ok"
              THEN /\ fs' = r.val
                   /\ pc' = "df"
                   /\ UNCHANGED ret
              ELSE /\ pc' = "failed"
                   /\ ret' = Call("GetFileSystem", args.path, r)
                   /\ UNCHANGED fs
  /\ UNCHANGED svs

\* dfData, err := readDfData(path); fs.dfData = dfData
GetFileSystemDF ==
  /\ pc = "df"
  /\ \E cmd \in DFCmds :
       LET r == readDfData(cmd)
       IN  /\ args' = [args EXCEPT !.df = cmd]
           /\ IF r.kind = "ok"
              THEN /\ fs' = [fs EXCEPT !.dfData = r.val]
                   /\ pc' = "list"
                   /\ UNCHANGED ret
              ELSE /\ pc' = "failed"
                   /\ fs' = Nil
                   /\ ret' = Call("GetFileSystem", args.path,
                                  IF r.kind = "err" THEN Err(Nil, r.msg, r.detail) ELSE r)
  /\ UNCHANGED svs

\* "btrfs subvolume list", printed; return fs, nil
GetFileSystemList ==
  /\ pc = "list"
  /\ \E cmd \in ListCmds :
       /\ args' = [args EXCEPT !.list = cmd]
       /\ IF cmd.failed
          THEN /\ pc' = "failed"
               /\ fs' = Nil
               /\ ret' = Call("GetFileSystem", args.path, Err(Nil, "exit status 1", ""))
          ELSE /\ pc' = "ready"
               /\ ret' = Call("GetFileSystem", args.path, Ok(fs))
               /\ UNCHANGED fs
  /\ UNCHANGED svs

Next ==
  \/ GetFileSystemCall
  \/ GetFileSystemShow
  \/ GetFileSystemDF
  \/ GetFileSystemList
  \/ CallUsedTotal
  \/ CallGetUsedBytes
  \/ CallAllocatedBytes
  \/ CallTotalBytes
  \/ CallDevices
  \/ CallDF
  \/ CallSubvolumes

Spec == Init /\ [][Next]_vars

(***************************************************************************)
(* C7 as stated: for a df report that holds the line                       *)
(* "System, DUP: total=32.00MiB, used=16.00KiB", the record parseDF makes  *)
(* of that line has UsedTotal return 2 x 16 KiB = 32,768, and GetUsedBytes *)
(* on the aggregate built from the report does not fail with an unknown    *)
(* level.                                                                  *)
(***************************************************************************)
C7_DupAccounted ==
  (/\ args # NoCmd
   /\ args.df # NoCmd
   /\ args.df.err = <<>> /\ ~args.df.io
   /\ \E i \in 1..Len(args.df.out) : args.df.out[i] = SystemDupLine) =>
    /\ pc # "failed"
    /\ \A i \in 1..Len(args.df.out) :
         args.df.out[i] = SystemDupLine =>
           /\ i <= Len(fs.dfData)
           /\ UsedTotal(fs.dfData[i]) = Ok(ToU64(FromDecimal("32768")))
    /\ ret.op = "GetUsedBytes" => ret.res.kind = "ok"

(***************************************************************************)
(* C9 as stated: after GetFileSystem has returned an aggregate, Devices()  *)
(* holds the devices of the summary report, DF() the records of the df     *)
(* report and Subvolumes() one Subvolume for each line of the subvolume    *)
(* list report; Subvolumes() is not empty when that report has a line.     *)
(***************************************************************************)
C9_CollectionsFilled ==
  pc = "ready" =>
    /\ Devices(fs) = parseFSShow(args.show.out).val.devices
    /\ DF(fs) = parseDF(args.df.out).val
    /\ Len(Subvolumes(fs)) = Len(args.list.out)
    /\ args.list.out # <<>> => Subvolumes(fs) # <<>>

====
